---- MODULE Spec2Model ----
(***************************************************************************)
(* A model of torch/fx/experimental/symbolic_shapes.py: the dispatch-mode  *)
(* slot (SymDispatchMode, _handle_sym_dispatch, magic_impl) and the shape  *)
(* environment (ShapeEnv); and of MultiKernelCall of                       *)
(* torch/_inductor/codegen/multi_kernel.py.                                *)
(***************************************************************************)
EXTENDS Integers, Sequences, FiniteSets, TLC

VARIABLES
    SYM_FUNCTION_MODE,  \* the module global: the active mode, or None
    inner,              \* inner[m]: the attribute m.inner, or Unset before m.__enter__
    stack,              \* running __sym_dispatch__ calls ("call") interleaved with the
                        \* modes entered and not yet exited ("with"), oldest first
    lifo,               \* history: every exit and handler return so far closed the
                        \* most recently opened entry of stack
    lastMode,           \* history: the most recent call on the mode machinery
    guards,             \* ShapeEnv.guards: sequence of <<expression, value>>
    var_to_val,         \* ShapeEnv.var_to_val: name -> size, Unbound when absent
    replacements,       \* ShapeEnv.replacements: name -> term, NoTerm when absent
    divisible,          \* ShapeEnv.divisible: set of terms
    simplifyCache,      \* _lru_cache(simplify): [key, cache]
    staticCache,        \* _lru_cache(maybe_evaluate_static): [key, cache]
    divisibleCache,     \* _lru_cache(update_divisible): [key, cache]
    hintCache,          \* lru_cache(size_hint): set of [k, v]
    creates,            \* history: number of create_symint / create_shapes_for_args calls
    evals,              \* history: number of evaluator calls
    lastEnv,            \* history: the most recent call on the environment
    kernels,            \* MultiKernelCall.kernels: sequence of kernels
    picked_kernel,      \* MultiKernelCall.picked_kernel: a kernel, or NoKernel
    calls,              \* history: number of MultiKernelCall.run calls
    lastRun             \* history: what the most recent MultiKernelCall.run did

modeVars == <<SYM_FUNCTION_MODE, inner, stack, lifo, lastMode>>

envVars == <<guards, var_to_val, replacements, divisible, simplifyCache, staticCache,
             divisibleCache, hintCache, creates, evals, lastEnv>>

kernelVars == <<kernels, picked_kernel, calls, lastRun>>

vars == <<modeVars, envVars, kernelVars>>

----------------------------------------------------------------------------
(* Bounds *)
NModes == 3      \* mode objects
MaxDepth == 4    \* entries of stack
MaxCreates == 2  \* create_symint / create_shapes_for_args calls
MaxEvals == 2    \* evaluator calls
MaxInt == 6      \* integers given to FloorDiv are in -MaxInt..MaxInt
NKernels == 3    \* kernel objects
MaxCalls == 3    \* MultiKernelCall.run calls
MaxTime == 3     \* do_bench measures a time in 1..MaxTime

----------------------------------------------------------------------------
(* The dispatch-mode slot *)

None == 0
Unset == -1
Modes == 1..NModes

WithEntry(m, prev) == [k |-> "with", m |-> m, prev |-> prev]
CallEntry(m) == [k |-> "call", m |-> m, prev |-> SYM_FUNCTION_MODE]

\* The largest member of the set of positions I, 0 when I is empty.
LastOf(I) == IF I = {} THEN 0 ELSE CHOOSE i \in I : \A j \in I : j <= i

\* The position in s of the last "with" entry of mode m, 0 when there is none.
LastWith(s, m) == LastOf({i \in 1..Len(s) : s[i].k = "with" /\ s[i].m = m})

\* The position in s of the innermost running handler, 0 when there is none.
LastCall(s) == LastOf({i \in 1..Len(s) : s[i].k = "call"})

RemoveAt(s, i) == [j \in 1..(Len(s) - 1) |-> IF j < i THEN s[j] ELSE s[j + 1]]

HasInnerNotNone(m) == inner[m] # Unset /\ inner[m] # None

\* hasattr(self, "inner")
HasInner(m) == inner[m] # Unset

\* SymDispatchMode.__enter__: self.inner = old
EnterInner(m) == SYM_FUNCTION_MODE

\* SymDispatchMode.__enter__: SYM_FUNCTION_MODE = self
EnterSlot(m) == m

ExitSlotNone(m) == None

\* SymDispatchMode.__exit__: SYM_FUNCTION_MODE = self.inner
ExitSlot(m) == inner[m]

DispatchSlotKept(mode) == mode

\* _handle_sym_dispatch: SYM_FUNCTION_MODE = mode.inner, before the handler runs
DispatchSlot(mode) == inner[mode]

FinallyKeepsSlot(mode) == SYM_FUNCTION_MODE

\* _handle_sym_dispatch: finally: SYM_FUNCTION_MODE = mode
FinallySlot(mode) == mode

ModeInit ==
    /\ SYM_FUNCTION_MODE = None
    /\ inner = [m \in Modes |-> Unset]
    /\ stack = <<>>
    /\ lifo = TRUE
    /\ lastMode = [op |-> "init", m |-> None, raised |-> FALSE]

\* m.__enter__()
Enter(m) ==
    /\ IF HasInner(m)
       THEN /\ lastMode' = [op |-> "enter", m |-> m, raised |-> TRUE]
            /\ UNCHANGED <<SYM_FUNCTION_MODE, inner, stack, lifo>>
       ELSE /\ Len(stack) < MaxDepth
            /\ inner' = [inner EXCEPT ![m] = EnterInner(m)]
            /\ SYM_FUNCTION_MODE' = EnterSlot(m)
            /\ stack' = Append(stack, WithEntry(m, SYM_FUNCTION_MODE))
            /\ lastMode' = [op |-> "enter", m |-> m, raised |-> FALSE]
            /\ UNCHANGED lifo
    /\ UNCHANGED <<envVars, kernelVars>>

\* m.__exit__(exc_type, exc_val, exc_tb); self.inner raises AttributeError on a
\* mode that was never entered
Exit(m) ==
    /\ IF ~HasInner(m)
       THEN /\ lastMode' = [op |-> "exit", m |-> m, raised |-> TRUE]
            /\ UNCHANGED <<SYM_FUNCTION_MODE, inner, stack, lifo>>
       ELSE LET i == LastWith(stack, m)
            IN  /\ SYM_FUNCTION_MODE' = ExitSlot(m)
                /\ stack' = IF i = 0 THEN stack ELSE RemoveAt(stack, i)
                /\ lifo' = (lifo /\ i # 0 /\ i = Len(stack))
                /\ lastMode' = [op |-> "exit", m |-> m, raised |-> FALSE]
                /\ UNCHANGED inner
    /\ UNCHANGED <<envVars, kernelVars>>

\* magic_impl / __sym_float__ with a mode active: _handle_sym_dispatch up to the
\* call of mode.__sym_dispatch__
MagicDispatch ==
    /\ SYM_FUNCTION_MODE # None
    /\ Len(stack) < MaxDepth
    /\ LET mode == SYM_FUNCTION_MODE
       IN  /\ SYM_FUNCTION_MODE' = DispatchSlot(mode)
           /\ stack' = Append(stack, CallEntry(mode))
           /\ lastMode' = [op |-> "dispatch", m |-> mode, raised |-> FALSE]
    /\ UNCHANGED <<inner, lifo>>
    /\ UNCHANGED <<envVars, kernelVars>>

\* magic_impl / __sym_float__ with no mode active: the default arithmetic
MagicDefault ==
    /\ SYM_FUNCTION_MODE = None
    /\ lastMode' = [op |-> "default", m |-> None, raised |-> FALSE]
    /\ UNCHANGED <<SYM_FUNCTION_MODE, inner, stack, lifo>>
    /\ UNCHANGED <<envVars, kernelVars>>

\* The innermost running handler returns (raised = FALSE) or raises: the finally
\* clause of _handle_sym_dispatch
HandlerEnd(raised) ==
    LET i == LastCall(stack)
    IN  /\ i # 0
        /\ SYM_FUNCTION_MODE' = FinallySlot(stack[i].m)
        /\ stack' = RemoveAt(stack, i)
        /\ lifo' = (lifo /\ i = Len(stack))
        /\ lastMode' = [op |-> "handled", m |-> stack[i].m, raised |-> raised]
        /\ UNCHANGED <<inner, envVars, kernelVars>>

HandlerReturn == HandlerEnd(FALSE)
HandlerRaise == HandlerEnd(TRUE)

ModeNext ==
    \/ \E m \in Modes : Enter(m)
    \/ \E m \in Modes : Exit(m)
    \/ MagicDispatch
    \/ MagicDefault
    \/ HandlerReturn
    \/ HandlerRaise


----------------------------------------------------------------------------
(* Expressions.  The shape environment computes with sympy expressions; the  *)
(* model keeps the fragment below and gives each sympy call the result sympy *)
(* gives on it.  Every coefficient and constant is a power of two:           *)
(*   term  c*s | n | Mod(s, 2) | FloorDiv(s, 2) | s/2                        *)
(*   expr  term | Eq(term, term) | True | False                              *)
(* A symbol is named by the pair <<k, idx>> of its name "s_{k}[{idx}]".      *)

NoName == <<-1, -1>>
Names == {<<0, 0>>, <<0, 1>>, <<1, 0>>, <<1, 1>>}

\* x.name < y.name (one-digit k and idx compare as the strings do)
NameLess(x, y) == x[1] < y[1] \/ (x[1] = y[1] /\ x[2] < y[2])

Const(n) == [f |-> "lin", c |-> n, s |-> NoName]
Lin(c, s) == [f |-> "lin", c |-> c, s |-> s]
Sym(s) == Lin(1, s)
ModT(s) == [f |-> "mod", c |-> 1, s |-> s]
FDivT(s) == [f |-> "fdiv", c |-> 1, s |-> s]
QuotT(s) == [f |-> "quot", c |-> 1, s |-> s]
\* Mod(s, 2) * FloorDiv(s, 2) and Mod(s, 2) * (s / 2)
ModFDivT(s) == [f |-> "modfdiv", c |-> 1, s |-> s]
ModQuotT(s) == [f |-> "modquot", c |-> 1, s |-> s]
NoTerm == [f |-> "none", c |-> 0, s |-> NoName]

TermE(t) == [op |-> "term", l |-> t, r |-> Const(0)]
EqE(l, r) == [op |-> "eq", l |-> l, r |-> r]
TrueE == [op |-> "true", l |-> Const(0), r |-> Const(0)]
FalseE == [op |-> "false", l |-> Const(0), r |-> Const(0)]
NoneE == [op |-> "none", l |-> Const(0), r |-> Const(0)]
BoolE(b) == IF b THEN TrueE ELSE FalseE

IsConst(t) == t.s = NoName

\* expr.free_symbols
TermSyms(t) == IF t.s = NoName THEN {} ELSE {t.s}
FreeSyms(e) ==
    CASE e.op = "term" -> TermSyms(e.l)
      [] e.op = "eq" -> TermSyms(e.l) \cup TermSyms(e.r)
      [] OTHER -> {}

\* c * t for a term t that is c'*s' or a number
Scale(c, t) == [t EXCEPT !.c = c * t.c]

Abs(n) == IF n < 0 THEN -n ELSE n

\* The quotient of the machine division: rounded toward zero
TruncDiv(a, b) ==
    IF (a < 0) = (b < 0) THEN Abs(a) \div Abs(b) ELSE -(Abs(a) \div Abs(b))

\* The quotient is left as the machine division gives it
IntFloorDivTruncates(a, b) == TruncDiv(a, b)

\* a // b of two integers, b # 0: the quotient rounded toward zero, less one
\* when the remainder is not 0 and has not the sign of b
IntFloorDiv(a, b) ==
    LET Adjusted(div, mod) == IF mod # 0 /\ ((mod < 0) # (b < 0)) THEN div - 1 ELSE div
        Divided(div) == Adjusted(div, a - div * b)
    IN  Divided(TruncDiv(a, b))

\* FloorDiv.eval for two Integers
FloorDivInts(base, divisor) ==
    IF base = 0 THEN [out |-> Const(0), exc |-> ""]
    ELSE IF divisor = 1 THEN [out |-> Const(base), exc |-> ""]
    ELSE IF divisor = 0 THEN [out |-> NoTerm, exc |-> "ZeroDivisionError"]
    ELSE [out |-> Const(IntFloorDiv(base, divisor)), exc |-> ""]


\* FloorDiv.eval(base, divisor) for a base c*s or n and the divisor 2: 0 for a
\* zero base, base // divisor for two integers, and after the gcd reduction
\* FloorDiv(c*s/2, 1) = (c/2)*s when c is even, else the node FloorDiv(s, 2)
FloorDivEval(base, divisor) ==
    IF IsConst(base)
    THEN FloorDivInts(base.c, divisor).out
    ELSE IF base.c % divisor = 0 THEN Lin(base.c \div divisor, base.s) ELSE FDivT(base.s)

\* Mod(c*s, 2) and Mod(n, 2) as sympy evaluates them on construction
ModEval(base) ==
    IF IsConst(base) THEN Const(base.c % 2)
    ELSE IF base.c % 2 = 0 THEN Const(0) ELSE ModT(base.s)

\* (c*s)/2 and n/2; the numbers met here are even
QuotEval(base) ==
    IF IsConst(base) THEN Const(base.c \div 2)
    ELSE IF base.c % 2 = 0 THEN Lin(base.c \div 2, base.s) ELSE QuotT(base.s)

\* The product of two terms of which one is a number or both are
Times(a, b) ==
    IF IsConst(a) THEN Scale(a.c, b)
    ELSE IF IsConst(b) THEN Scale(b.c, a)
    ELSE IF a.f = "mod" /\ b.f = "fdiv" THEN ModFDivT(a.s)
    ELSE ModQuotT(a.s)

\* term.xreplace(rho): rho gives, for each name, the term put in its place
SubstTerm(t, rho) ==
    IF IsConst(t) THEN t
    ELSE CASE t.f = "lin" -> Scale(t.c, rho[t.s])
           [] t.f = "mod" -> ModEval(rho[t.s])
           [] t.f = "fdiv" -> FloorDivEval(rho[t.s], 2)
           [] t.f = "quot" -> QuotEval(rho[t.s])
           [] t.f = "modfdiv" -> Times(ModEval(rho[t.s]), FloorDivEval(rho[t.s], 2))
           [] t.f = "modquot" -> Times(ModEval(rho[t.s]), QuotEval(rho[t.s]))

\* sympy.Eq(l, r): True for identical sides, decided for two numbers, False
\* when the difference of the sides has one sign for every positive integer
\* value of the symbol, otherwise the unevaluated relation
MkEq(l, r) ==
    IF l = r THEN TrueE
    ELSE IF IsConst(l) /\ IsConst(r) THEN FalseE
    ELSE IF l.f = "lin" /\ r.f = "lin" /\ ~IsConst(l) /\ ~IsConst(r) /\ l.s = r.s THEN FalseE
    ELSE IF l.f = "lin" /\ ~IsConst(l) /\ IsConst(r) /\ l.c > r.c THEN FalseE
    ELSE IF r.f = "lin" /\ ~IsConst(r) /\ IsConst(l) /\ r.c > l.c THEN FalseE
    ELSE EqE(l, r)

\* expr.xreplace(rho), which rebuilds and so re-evaluates the relation
SubstExpr(e, rho) ==
    CASE e.op = "term" -> TermE(SubstTerm(e.l, rho))
      [] e.op = "eq" -> MkEq(SubstTerm(e.l, rho), SubstTerm(e.r, rho))
      [] OTHER -> e

\* sympy.expand leaves every expression of the fragment as it is
Expand(e) == e

\* Eq(l, r) after every symbol s is replaced by shape + 1 with shape a positive
\* integer, and expanded: c*shape + c - n is positive for every shape when
\* 2*c > n, and the relation is then False; otherwise it keeps its symbols
ShiftedEq(l, r) ==
    IF l.f = "lin" /\ ~IsConst(l) /\ IsConst(r) /\ 2 * l.c > r.c THEN FalseE
    ELSE IF r.f = "lin" /\ ~IsConst(r) /\ IsConst(l) /\ 2 * r.c > l.c THEN FalseE
    ELSE EqE(l, r)

\* The term has a Mod factor
HasMod(t) == t.f \in {"mod", "modfdiv", "modquot"}

\* The solution found is the symbol solved for
SolveKeepsTop(e, top) == [kind |-> "solved", sol |-> Sym(top)]

\* sympy.solve(lhs - rhs, top) for the relation e: the term [top = sol], with
\* frac set when the solution is a fraction, or NotImplementedError for Mod
Solve(e, top) ==
    LET mine == IF e.l.s = top THEN e.l ELSE e.r
        other == IF e.l.s = top THEN e.r ELSE e.l
    IN  IF HasMod(e.l) \/ HasMod(e.r)
        THEN [kind |-> "NotImplementedError", sol |-> NoTerm]
        ELSE IF other.c % mine.c = 0
             THEN [kind |-> "solved", sol |-> [other EXCEPT !.c = other.c \div mine.c]]
             ELSE [kind |-> "fraction", sol |-> NoTerm]

\* expr.atoms(sympy.Mod)
ModAtoms(e) == {ModT(t.s) : t \in {u \in {e.l, e.r} : HasMod(u)}}

\* expr.atoms(FloorDiv)
FloorDivAtoms(e) == {FDivT(t.s) : t \in {u \in {e.l, e.r} : u.f \in {"fdiv", "modfdiv"}}}

----------------------------------------------------------------------------
(* The shape environment.  An operation takes the environment E, a record   *)
(* of the fields of ShapeEnv and of the caches of its methods, and gives    *)
(* [E |-> the environment after it, out |-> what it returns, exc |-> the    *)
(* exception it raises, "" for none].                                       *)

Unbound == 0
NoKey == <<-1, -1>>
NoCache == [key |-> NoKey, cache |-> {}]

Ret(E, out) == [E |-> E, out |-> out, exc |-> "", path |-> ""]
Raise(E, exc) == [E |-> E, out |-> NoneE, exc |-> exc, path |-> ""]

Cached(cache, k) == \E ent \in cache : ent.k = k
Lookup(cache, k) == (CHOOSE ent \in cache : ent.k = k).v

\* ShapeEnv._get_key
GetKey(E) ==
    <<Cardinality({n \in Names : E.replacements[n] # NoTerm}), Cardinality(E.divisible)>>

\* a in self.replacements
IsKey(repl, a) == a.f = "lin" /\ a.c = 1 /\ a.s # NoName /\ repl[a.s] # NoTerm

\* ShapeEnv.find, first loop: the end of the chain of replacements from a
\* (fuel bounds the walk; it never runs out while the chain has no cycle)
RECURSIVE Walk(_, _, _)
Walk(repl, a, fuel) ==
    IF fuel = 0 \/ ~IsKey(repl, a) THEN a ELSE Walk(repl, repl[a.s], fuel - 1)

Root(repl, a) == Walk(repl, a, Cardinality(Names) + 1)

\* The keys on the chain of replacements from a
RECURSIVE Chain(_, _, _)
Chain(repl, a, fuel) ==
    IF fuel = 0 \/ ~IsKey(repl, a) THEN {}
    ELSE {a.s} \cup Chain(repl, repl[a.s], fuel - 1)

\* Every key on a chain is removed from the dictionary
CompressPops(repl, A) ==
    LET K == UNION {Chain(repl, a, Cardinality(Names) + 1) : a \in A}
    IN  [n \in Names |-> IF n \in K THEN NoTerm ELSE repl[n]]

\* The second loop of find is left out: the dictionary stays as it is
CompressNothing(repl, A) == repl


\* ShapeEnv.find, second loop, for every term of the set A: each key on a
\* chain is made to point at the end of the chain
Compress(repl, A) ==
    LET K == UNION {Chain(repl, a, Cardinality(Names) + 1) : a \in A}
    IN  [n \in Names |-> IF n \in K THEN Root(repl, Sym(n)) ELSE repl[n]]

\* ShapeEnv.find
Find(E, a) ==
    Ret([E EXCEPT !.replacements = Compress(E.replacements, {a})], Root(E.replacements, a))

\* ShapeEnv.replace: every free symbol is replaced by find of it
Replace(E, e) ==
    LET rho == [n \in Names |-> Root(E.replacements, Sym(n))]
        A == {Sym(n) : n \in FreeSyms(e)}
    IN  Ret([E EXCEPT !.replacements = Compress(E.replacements, A)], SubstExpr(e, rho))

\* ShapeEnv.update_divisible, the body
UpdateDivisibleBody(E) ==
    LET rho == [n \in Names |-> Root(E.replacements, Sym(n))]
        A == {Sym(a.s) : a \in {t \in E.divisible : t.s # NoName}}
        res == {SubstTerm(a, rho) : a \in E.divisible}
    IN  Ret([E EXCEPT !.replacements = Compress(E.replacements, A),
                      !.divisible = {t \in res : TermSyms(t) # {}}], NoneE)

\* _lru_cache: fn_cache is cleared when _get_key() is no longer prior_key
Cleared(cache, key) == IF cache.key # key THEN [key |-> key, cache |-> {}] ELSE cache

\* fn_cache after the call for the argument k has returned v
Stored(cache, k, v) == [cache EXCEPT !.cache = @ \cup {[k |-> k, v |-> v]}]

\* _lru_cache wrapper of update_divisible
UpdateDivisible(E) ==
    LET Store(got) ==
            Ret([got.E EXCEPT !.divisibleCache = Stored(@, NoneE, NoneE)], NoneE)
        Call0(E0) ==
            IF Cached(E0.divisibleCache.cache, NoneE) THEN Ret(E0, NoneE)
            ELSE Store(UpdateDivisibleBody(E0))
    IN  Call0([E EXCEPT !.divisibleCache = Cleared(@, GetKey(E))])

\* t.xreplace({atom: atom.args[0] / atom.args[1]}) for the FloorDiv atom of
\* the term t when it is in divisible
DivideTerm(t, div) ==
    IF t.f = "fdiv" /\ FDivT(t.s) \in div THEN QuotT(t.s)
    ELSE IF t.f = "modfdiv" /\ FDivT(t.s) \in div THEN ModQuotT(t.s)
    ELSE t

\* ShapeEnv.simplify, the body
SimplifyBody(E, e) ==
    LET Divided(upd, e1) ==
            IF e1.op = "eq"
            THEN Ret(upd.E, Expand(MkEq(DivideTerm(e1.l, upd.E.divisible),
                                        DivideTerm(e1.r, upd.E.divisible))))
            ELSE Ret(upd.E, Expand(TermE(DivideTerm(e1.l, upd.E.divisible))))
        Expanded(rep, e1) ==
            IF FloorDivAtoms(e1) = {} THEN Ret(rep.E, e1)
            ELSE Divided(UpdateDivisible(rep.E), e1)
        Replaced(rep) == Expanded(rep, Expand(rep.out))
    IN  Replaced(Replace(E, e))

\* _lru_cache wrapper of simplify
Simplify(E, e) ==
    LET Store(got) ==
            Ret([got.E EXCEPT !.simplifyCache = Stored(@, e, got.out)], got.out)
        Call0(E0) ==
            IF Cached(E0.simplifyCache.cache, e) THEN Ret(E0, Lookup(E0.simplifyCache.cache, e))
            ELSE Store(SimplifyBody(E0, e))
    IN  Call0([E EXCEPT !.simplifyCache = Cleared(@, GetKey(E))])

\* ShapeEnv.maybe_evaluate_static, the body
MaybeEvaluateStaticBody(e) ==
    LET Expanded(new_expr) == IF FreeSyms(new_expr) = {} THEN new_expr ELSE NoneE
    IN  Expanded(Expand(IF e.op = "eq" THEN ShiftedEq(e.l, e.r) ELSE e))

\* _lru_cache wrapper of maybe_evaluate_static
MaybeEvaluateStatic(E, e) ==
    LET Store(E0, out) == Ret([E0 EXCEPT !.staticCache = Stored(@, e, out)], out)
        Call0(E0) ==
            IF Cached(E0.staticCache.cache, e) THEN Ret(E0, Lookup(E0.staticCache.cache, e))
            ELSE Store(E0, MaybeEvaluateStaticBody(e))
    IN  Call0([E EXCEPT !.staticCache = Cleared(@, GetKey(E))])

\* ShapeEnv.size_hint, the body: the expression with every symbol that has a
\* binding replaced by its size; the assertion fails for a term that keeps a
\* symbol (a relation is no sympy.Expr and passes it)
SizeHintBody(E, e) ==
    LET rho == [n \in Names |-> IF E.var_to_val[n] = Unbound THEN Sym(n)
                                ELSE Const(E.var_to_val[n])]
        Checked(result_expr) ==
            IF result_expr.op = "term" /\ FreeSyms(result_expr) # {}
            THEN Raise(E, "AssertionError")
            ELSE Ret(E, result_expr)
    IN  Checked(SubstExpr(Expand(e), rho))

\* functools.lru_cache wrapper of size_hint: a result is kept for good, a
\* raised call keeps nothing
SizeHint(E, e) ==
    LET Store(got) ==
            IF got.exc # "" THEN got
            ELSE Ret([E EXCEPT !.hintCache = @ \cup {[k |-> e, v |-> got.out]}], got.out)
    IN  IF Cached(E.hintCache, e) THEN Ret(E, Lookup(E.hintCache, e))
        ELSE Store(SizeHintBody(E, e))

\* The hint size_hint(x) gives for the symbol x
HintOf(E, x) == SizeHint(E, TermE(Sym(x))).out.l.c

\* The environment after size_hint(x) for every x of S
AfterHints(E, S) ==
    [E EXCEPT !.hintCache =
        @ \cup {[k |-> TermE(Sym(x)), v |-> SizeHint(E, TermE(Sym(x))).out] :
                  x \in {y \in S : ~Cached(E.hintCache, TermE(Sym(y)))}}]

\* The free symbol of the smallest hint instead
FirstFreeSmallestHint(E, S) ==
    CHOOSE x \in S : \A y \in S \ {x} :
        \/ HintOf(E, x) < HintOf(E, y)
        \/ HintOf(E, x) = HintOf(E, y) /\ NameLess(x, y)

\* sorted(free, key=lambda x: (-self.size_hint(x), x.name))[0]
FirstFree(E, S) ==
    CHOOSE x \in S : \A y \in S \ {x} :
        \/ HintOf(E, x) > HintOf(E, y)
        \/ HintOf(E, x) = HintOf(E, y) /\ NameLess(x, y)

\* Nothing is appended
LogGuardNothing(E, expr, concrete_val) == E

\* The guard is put in front of the log
LogGuardFirst(E, expr, concrete_val) == [E EXCEPT !.guards = <<<<expr, concrete_val>>>> \o @]

\* self.guards.append((expr, concrete_val))
LogGuard(E, expr, concrete_val) == [E EXCEPT !.guards = Append(@, <<expr, concrete_val>>)]

\* evaluate_eq, the except branch: solve raised NotImplementedError
ModSolved(E, e, concrete_val) ==
    LET Other(mod_expr) == IF HasMod(e.l) /\ e.l.s = mod_expr.s THEN e.r ELSE e.l
        Added(mod_expr) ==
            IF Other(mod_expr) = Const(0)
            THEN Ret([E EXCEPT !.divisible = @ \cup {FloorDivEval(Sym(mod_expr.s), 2)}],
                     concrete_val)
            ELSE Ret(E, concrete_val)
    IN  IF Cardinality(ModAtoms(e)) = 1 THEN Added(CHOOSE t \in ModAtoms(e) : TRUE)
        ELSE Ret(E, concrete_val)

\* ShapeEnv.evaluate_eq
EvaluateEq(E, e) ==
    LET free == FreeSyms(e)
        Recorded(found, top, concrete_val) ==
            Ret([found.E EXCEPT !.replacements[top] = found.out], concrete_val)
        Solved(E2, top, solutions, concrete_val) ==
            IF solutions.kind = "solved"
            THEN Recorded(Find(E2, solutions.sol), top, concrete_val)
            ELSE IF solutions.kind = "NotImplementedError"
                 THEN ModSolved(E2, e, concrete_val)
                 ELSE Ret(E2, concrete_val)
        Sorted(E2, top, concrete_val) == Solved(E2, top, Solve(e, top), concrete_val)
        Logged(E1, concrete_val) ==
            IF concrete_val.op = "eq" THEN Raise(E1, "TypeError")
            ELSE IF concrete_val = FalseE THEN Ret(E1, concrete_val)
            ELSE IF free = {} THEN Raise(E1, "AssertionError")
            ELSE Sorted(AfterHints(E1, free), FirstFree(E1, free), concrete_val)
        Hinted(hint) == Logged(LogGuard(hint.E, e, hint.out), hint.out)
    IN  Hinted(SizeHint(E, e))

\* got, with the return statement it was given by
Via(got, path) == [got EXCEPT !.path = path]

\* evaluate_expr with a guard appended on the static return too
EvaluateExprStaticLogs(E, e) ==
    LET Hinted(hint, expr) ==
            IF hint.exc # "" THEN Via(hint, "guard")
            ELSE Via(Ret(LogGuard(hint.E, expr, hint.out), hint.out), "guard")
        Static(stat, expr) ==
            IF stat.out # NoneE
            THEN Via(Ret(LogGuard(stat.E, expr, stat.out), stat.out), "static")
            ELSE IF expr.op = "eq" THEN Via(EvaluateEq(stat.E, expr), "eq")
            ELSE Hinted(SizeHint(stat.E, expr), expr)
        Simplified(simp) == Static(MaybeEvaluateStatic(simp.E, simp.out), simp.out)
    IN  IF FreeSyms(e) = {} THEN Via(Ret(E, e), "concrete")
        ELSE Simplified(Simplify(E, e))

\* ShapeEnv.evaluate_expr; path names the return statement taken
EvaluateExpr(E, e) ==
    LET Hinted(hint, expr) ==
            IF hint.exc # "" THEN Via(hint, "guard")
            ELSE Via(Ret(LogGuard(hint.E, expr, hint.out), hint.out), "guard")
        Static(stat, expr) ==
            IF stat.out # NoneE THEN Via(Ret(stat.E, stat.out), "static")
            ELSE IF expr.op = "eq" THEN Via(EvaluateEq(stat.E, expr), "eq")
            ELSE Hinted(SizeHint(stat.E, expr), expr)
        Simplified(simp) == Static(MaybeEvaluateStatic(simp.E, simp.out), simp.out)
    IN  IF FreeSyms(e) = {} THEN Via(Ret(E, e), "concrete")
        ELSE Simplified(Simplify(E, e))
\* A Python int and a Python bool, as distinct from sympy's Integer and
\* BooleanTrue / BooleanFalse
IntE(n) == [op |-> "int", l |-> Const(n), r |-> Const(0)]
PyBoolE(b) == [op |-> "bool", l |-> Const(IF b THEN 1 ELSE 0), r |-> Const(0)]

\* int(x) of what evaluate_expr returned: a sympy Integer converts, a
\* sympy boolean, a relation or an expression with symbols raises TypeError
IntOf(got) ==
    IF got.exc # "" THEN got
    ELSE IF got.out.op = "term" /\ FreeSyms(got.out) = {}
         THEN [got EXCEPT !.out = IntE(got.out.l.c)]
         ELSE [Raise(got.E, "TypeError") EXCEPT !.path = got.path]

\* bool(x) of what evaluate_expr returned: sympy's booleans convert, an
\* Integer is true unless it is 0, an expression with symbols is true, a
\* relation raises TypeError
BoolOf(got) ==
    IF got.exc # "" THEN got
    ELSE IF got.out.op = "eq" THEN [Raise(got.E, "TypeError") EXCEPT !.path = got.path]
    ELSE IF got.out.op = "term"
         THEN [got EXCEPT !.out = PyBoolE(FreeSyms(got.out) # {} \/ got.out.l.c # 0)]
         ELSE [got EXCEPT !.out = PyBoolE(got.out = TrueE)]

\* PySymInt.guard_int
GuardInt(E, e) == IntOf(EvaluateExpr(E, e))

\* int(x) returns the guarded value
PyIntGuards(E, e) == GuardInt(E, e)

\* PySymInt.__int__
PyInt(E, e) == Raise(E, "RuntimeError")

\* bool(x) evaluates against the bindings and logs nothing
PyBoolNoGuard(E, e) == BoolOf(Via(SizeHint(E, e), "hint"))

\* PySymInt.__bool__
PyBool(E, e) == BoolOf(EvaluateExpr(E, e))

\* No specialisation of 0 and 1: every value gets a symbol and a binding
CreateSymintAlwaysBinds(E, name, val) ==
    Ret([E EXCEPT !.var_to_val[name] = val], TermE(Sym(name)))


\* ShapeEnv.create_symint
CreateSymint(E, name, val) ==
    IF val = 0 \/ val = 1 THEN Ret(E, TermE(Const(val)))
    ELSE Ret([E EXCEPT !.var_to_val[name] = val], TermE(Sym(name)))

\* A tensor object is named by a number, 0 names a leaf that is no tensor;
\* TensorShape[t] is x.shape of the tensor t
NonTensor == 0
TensorShape == << <<8, 8>>, <<8, 4>>, <<4>> >>

\* create_shape(x) of create_shapes_for_args for a tensor x, from dimension idx
\* on: out_shape grows by create_symint(f"s_{arg_cnt}[{idx}]", sz)
RECURSIVE CreateShape(_, _, _, _)
CreateShape(E, shape, arg_cnt, idx) ==
    IF idx > Len(shape) THEN [E |-> E, out_shape |-> <<>>]
    ELSE LET made == CreateSymint(E, <<arg_cnt, idx - 1>>, shape[idx])
             rest == CreateShape(made.E, shape, arg_cnt, idx + 1)
         IN  [E |-> rest.E, out_shape |-> <<made.out>> \o rest.out_shape]

\* ShapeEnv.create_shapes_for_args over the flattened leaves from position i on
RECURSIVE CreateShapes(_, _, _, _)
CreateShapes(E, leaves, arg_cnt, i) ==
    IF i > Len(leaves) THEN [E |-> E, outs |-> <<>>]
    ELSE IF leaves[i] = NonTensor
         THEN LET rest == CreateShapes(E, leaves, arg_cnt, i + 1)
              IN  [E |-> rest.E, outs |-> <<[tensor |-> FALSE, shape |-> <<>>]>> \o rest.outs]
         ELSE LET made == CreateShape(E, TensorShape[leaves[i]], arg_cnt, 1)
                  rest == CreateShapes(made.E, leaves, arg_cnt + 1, i + 1)
              IN  [E |-> rest.E,
                   outs |-> <<[tensor |-> TRUE, shape |-> made.out_shape]>> \o rest.outs]

CreateShapesForArgs(E, args) == CreateShapes(E, args, 0, 1)

\* ShapeEnv.evaluate_guards_for_args: create_shapes_for_args takes no
\* var_to_val argument, the call raises before anything is done
EvaluateGuardsForArgs(E, args) == Raise(E, "TypeError")

----------------------------------------------------------------------------
(* The environment as a state machine *)

S00 == <<0, 0>>
S01 == <<0, 1>>
S10 == <<1, 0>>
S11 == <<1, 1>>

\* What callers pass in
SymintInputs == {<<S00, 0>>, <<S00, 1>>, <<S00, 4>>, <<S00, 8>>, <<S01, 4>>, <<S01, 8>>}
ArgsInputs == {<<1>>, <<1, 1>>, <<2, 3>>, <<NonTensor, 3>>}
ReplayInputs == {<<1>>, <<2, 3>>}
EqInputs ==
    {EqE(Sym(S00), Sym(S01)), EqE(Sym(S01), Sym(S10)), EqE(Sym(S00), Lin(2, S01)),
     EqE(ModT(S00), Const(0))}
ExprInputs ==
    EqInputs \cup
    {TermE(Sym(S00)), TermE(FDivT(S00)), TermE(FDivT(S01)), TermE(Const(8)),
     EqE(ModFDivT(S01), Const(0)),
     EqE(Sym(S00), Const(8)), EqE(Sym(S00), Const(1))}

Env ==
    [guards |-> guards, var_to_val |-> var_to_val, replacements |-> replacements,
     divisible |-> divisible, simplifyCache |-> simplifyCache, staticCache |-> staticCache,
     divisibleCache |-> divisibleCache, hintCache |-> hintCache]

\* The fields of the environment become those of E
Becomes(E) ==
    /\ guards' = E.guards
    /\ var_to_val' = E.var_to_val
    /\ replacements' = E.replacements
    /\ divisible' = E.divisible
    /\ simplifyCache' = E.simplifyCache
    /\ staticCache' = E.staticCache
    /\ divisibleCache' = E.divisibleCache
    /\ hintCache' = E.hintCache

Call(op, e, args, got) ==
    [op |-> op, e |-> e, args |-> args, out |-> got.out, outs |-> <<>>,
     exc |-> got.exc, path |-> got.path]

\* ShapeEnv.__init__
EnvInit ==
    /\ guards = <<>>
    /\ var_to_val = [n \in Names |-> Unbound]
    /\ replacements = [n \in Names |-> NoTerm]
    /\ divisible = {}
    /\ simplifyCache = NoCache
    /\ staticCache = NoCache
    /\ divisibleCache = NoCache
    /\ hintCache = {}
    /\ creates = 0
    /\ evals = 0
    /\ lastEnv = [op |-> "init", e |-> NoneE, args |-> <<>>, out |-> NoneE, outs |-> <<>>,
                  exc |-> "", path |-> ""]

DoCreateSymint(name, val) ==
    /\ creates < MaxCreates
    /\ LET got == CreateSymint(Env, name, val)
       IN  /\ Becomes(got.E)
           /\ lastEnv' = [Call("create_symint", TermE(Sym(name)), <<val>>, got) EXCEPT !.path = ""]
    /\ creates' = creates + 1
    /\ UNCHANGED <<evals, modeVars, kernelVars>>

DoCreateShapesForArgs(args) ==
    /\ creates < MaxCreates
    /\ LET got == CreateShapesForArgs(Env, args)
       IN  /\ Becomes(got.E)
           /\ lastEnv' = [op |-> "create_shapes_for_args", e |-> NoneE, args |-> args,
                          out |-> NoneE, outs |-> got.outs, exc |-> "", path |-> ""]
    /\ creates' = creates + 1
    /\ UNCHANGED <<evals, modeVars, kernelVars>>

DoEvaluateGuardsForArgs(args) ==
    /\ evals < MaxEvals
    /\ LET got == EvaluateGuardsForArgs(Env, args)
       IN  /\ Becomes(got.E)
           /\ lastEnv' = Call("evaluate_guards_for_args", NoneE, args, got)
    /\ evals' = evals + 1
    /\ UNCHANGED <<creates, modeVars, kernelVars>>

DoEvaluateExpr(e) ==
    /\ evals < MaxEvals
    /\ LET got == EvaluateExpr(Env, e)
       IN  /\ Becomes(got.E)
           /\ lastEnv' = Call("evaluate_expr", e, <<>>, got)
    /\ evals' = evals + 1
    /\ UNCHANGED <<creates, modeVars, kernelVars>>

DoEvaluateEq(e) ==
    /\ evals < MaxEvals
    /\ LET got == EvaluateEq(Env, e)
       IN  /\ Becomes(got.E)
           /\ lastEnv' = Call("evaluate_eq", e, <<>>, got)
    /\ evals' = evals + 1
    /\ UNCHANGED <<creates, modeVars, kernelVars>>

EnvNext ==
    \/ \E in \in SymintInputs : DoCreateSymint(in[1], in[2])
    \/ \E args \in ArgsInputs : DoCreateShapesForArgs(args)
    \/ \E args \in ReplayInputs : DoEvaluateGuardsForArgs(args)
    \/ \E e \in ExprInputs : DoEvaluateExpr(e)
    \/ \E e \in EqInputs : DoEvaluateEq(e)


----------------------------------------------------------------------------
(* MultiKernelCall: the run-time choice among the kernels of a multi-kernel *)

\* picked_kernel is None
NoKernel == 0

Kernels == 1..NKernels

\* The TritonFuture of kernel k is NKernels + k
TritonFutures == (NKernels + 1)..(2 * NKernels)

\* isinstance(kernel, TritonFuture)
IsTritonFuture(kernel) == kernel \in TritonFutures

\* kernel.result()
Result(kernel) == kernel - NKernels

\* The sequences of two or more distinct members of S
ListsOf(S) ==
    {l \in UNION {[1..n -> S] : n \in 2..Cardinality(S)} :
        \A i, j \in DOMAIN l : l[i] = l[j] => i = j}

\* What the generated wrapper hands to MultiKernelCall: the kernels of one
\* MultiKernel, distinct kernels, either all compiled or all still futures
KernelsInputs == ListsOf(Kernels) \cup ListsOf(TritonFutures)

\* MultiKernelCall.__init__(given)
MultiKernelCallInit(given) ==
    /\ Len(given) >= 2
    /\ kernels = IF IsTritonFuture(given[1])
                 THEN [i \in DOMAIN given |-> Result(given[i])]
                 ELSE given
    /\ picked_kernel = NoKernel
    /\ calls = 0
    /\ lastRun = [op |-> "init", benched |-> <<>>, times |-> <<>>, ran |-> <<>>]

\* The multi-kernel of two kernels, before its first run
KernelInit == MultiKernelCallInit(<<1, 2>>)

\* The dict timings of run: the time of a kernel is the time measured by the
\* last bench of it, times[i] being what bench(ks[i]) returned
Timings(ks, times) ==
    [kernel \in {ks[i] : i \in DOMAIN ks} |->
        times[LastOf({i \in DOMAIN ks : ks[i] = kernel})]]

MinFirstKey(ks, timings) == ks[1]

\* builtins.min(timings, key=timings.get): the first key, in the order of the
\* kernels, whose time no other key's time is below
Min(ks, timings) ==
    LET smallest == {i \in DOMAIN ks : \A j \in DOMAIN ks : timings[ks[i]] <= timings[ks[j]]}
    IN  ks[CHOOSE i \in smallest : \A j \in smallest : i <= j]

\* What do_bench may return for each of n kernels
TimesInputs(n) == [1..n -> 1..MaxTime]

\* MultiKernelCall.run(*args, **kwargs)
DoRun ==
    /\ calls < MaxCalls
    /\ calls' = calls + 1
    /\ IF picked_kernel = NoKernel
       THEN \E times \in TimesInputs(Len(kernels)) :
                /\ picked_kernel' = Min(kernels, Timings(kernels, times))
                /\ lastRun' = [op |-> "run", benched |-> kernels, times |-> times,
                               ran |-> <<picked_kernel'>>]
       ELSE /\ picked_kernel' = picked_kernel
            /\ lastRun' = [op |-> "run", benched |-> <<>>, times |-> <<>>,
                           ran |-> <<picked_kernel>>]
    /\ UNCHANGED <<kernels, modeVars, envVars>>

KernelNext == DoRun

\* A multi-kernel is built from two or more kernels
MultiKernelInit ==
    /\ ModeInit
    /\ EnvInit
    /\ \E given \in KernelsInputs : MultiKernelCallInit(given)

\* and run
SpecKernel == MultiKernelInit /\ [][KernelNext]_vars

----------------------------------------------------------------------------
(* Specifications *)

\* Nothing has been entered and the environment is new
Init == ModeInit /\ EnvInit /\ KernelInit

\* The shape environment in use, with no dispatch mode
Spec == Init /\ [][EnvNext]_vars

\* The dispatch modes in use, with the environment left alone
SpecModes == Init /\ [][ModeNext]_vars

\* Symbols are created and evaluate_expr is the only evaluator call
ExprNext ==
    \/ \E in \in SymintInputs : DoCreateSymint(in[1], in[2])
    \/ \E args \in ArgsInputs : DoCreateShapesForArgs(args)
    \/ \E e \in ExprInputs : DoEvaluateExpr(e)

SpecExpr == Init /\ [][ExprNext]_vars

\* ShapeEnv(): the fields of a new environment
NewEnv ==
    [guards |-> <<>>, var_to_val |-> [n \in Names |-> Unbound],
     replacements |-> [n \in Names |-> NoTerm], divisible |-> {},
     simplifyCache |-> NoCache, staticCache |-> NoCache, divisibleCache |-> NoCache,
     hintCache |-> {}]

\* The environment after create_shapes_for_args([T]) for T of shape (8, 8) and
\* evaluate_expr(Eq(Mod(s_0[0], 2), 0)), which learns that s_0[0] // 2 divides
DivisibleEnv ==
    EvaluateExpr(CreateShapesForArgs(NewEnv, <<1>>).E, EqE(ModT(S00), Const(0))).E

\* The environment has learnt a divisibility fact; the calls are counted from here
DivisibleInit ==
    /\ ModeInit
    /\ KernelInit
    /\ guards = DivisibleEnv.guards
    /\ var_to_val = DivisibleEnv.var_to_val
    /\ replacements = DivisibleEnv.replacements
    /\ divisible = DivisibleEnv.divisible
    /\ simplifyCache = DivisibleEnv.simplifyCache
    /\ staticCache = DivisibleEnv.staticCache
    /\ divisibleCache = DivisibleEnv.divisibleCache
    /\ hintCache = DivisibleEnv.hintCache
    /\ creates = 0
    /\ evals = 0
    /\ lastEnv = [op |-> "init", e |-> NoneE, args |-> <<>>, out |-> NoneE, outs |-> <<>>,
                  exc |-> "", path |-> ""]

\* The shape environment in use from there on
SpecDivisible == DivisibleInit /\ [][ExprNext]_vars

\* The environment after create_shapes_for_args([T, U]) for T of shape (8, 4)
\* and U of shape (4), and evaluate_expr(Eq(s_0[0], 8)), which replaces
\* s_0[0] by 8
SpecialisedEnv ==
    EvaluateExpr(CreateShapesForArgs(NewEnv, <<2, 3>>).E, EqE(Sym(S00), Const(8))).E

\* A symbol has been specialised; the calls are counted from here
SpecialisedInit ==
    /\ ModeInit
    /\ KernelInit
    /\ guards = SpecialisedEnv.guards
    /\ var_to_val = SpecialisedEnv.var_to_val
    /\ replacements = SpecialisedEnv.replacements
    /\ divisible = SpecialisedEnv.divisible
    /\ simplifyCache = SpecialisedEnv.simplifyCache
    /\ staticCache = SpecialisedEnv.staticCache
    /\ divisibleCache = SpecialisedEnv.divisibleCache
    /\ hintCache = SpecialisedEnv.hintCache
    /\ creates = 0
    /\ evals = 0
    /\ lastEnv = [op |-> "init", e |-> NoneE, args |-> <<>>, out |-> NoneE, outs |-> <<>>,
                  exc |-> "", path |-> ""]

\* The shape environment in use from there on
SpecSpecialised == SpecialisedInit /\ [][EnvNext]_vars

\* What find is called with: every symbol, a number and a multiple of a symbol
FindInputs == {Sym(n) : n \in Names} \cup {Const(8), Lin(2, S01)}

DoFind(a) ==
    /\ LET got == Find(Env, a)
       IN  /\ Becomes(got.E)
           /\ lastEnv' = Call("find", TermE(a), <<>>, [got EXCEPT !.out = TermE(got.out)])
    /\ UNCHANGED <<creates, evals, modeVars, kernelVars>>

\* The environment in use, with find called from outside as well
FindNext ==
    \/ \E in \in SymintInputs : DoCreateSymint(in[1], in[2])
    \/ \E args \in ArgsInputs : DoCreateShapesForArgs(args)
    \/ \E e \in ExprInputs : DoEvaluateExpr(e)
    \/ \E e \in EqInputs : DoEvaluateEq(e)
    \/ \E a \in FindInputs : DoFind(a)

SpecFind == Init /\ [][FindNext]_vars


\* The expressions of the symbolic integers converted: symbols, results of
\* the magic methods floordiv and eq, and wrap(8)
ConvertInputs == ExprInputs

DoInt(e) ==
    /\ evals < MaxEvals
    /\ LET got == PyInt(Env, e)
       IN  /\ Becomes(got.E)
           /\ lastEnv' = Call("__int__", e, <<>>, got)
    /\ evals' = evals + 1
    /\ UNCHANGED <<creates, modeVars, kernelVars>>

DoGuardInt(e) ==
    /\ evals < MaxEvals
    /\ LET got == GuardInt(Env, e)
       IN  /\ Becomes(got.E)
           /\ lastEnv' = Call("guard_int", e, <<>>, got)
    /\ evals' = evals + 1
    /\ UNCHANGED <<creates, modeVars, kernelVars>>

DoBool(e) ==
    /\ evals < MaxEvals
    /\ LET got == PyBool(Env, e)
       IN  /\ Becomes(got.E)
           /\ lastEnv' = Call("__bool__", e, <<>>, got)
    /\ evals' = evals + 1
    /\ UNCHANGED <<creates, modeVars, kernelVars>>

\* Symbols are created and symbolic integers are converted
SymIntNext ==
    \/ \E in \in SymintInputs : DoCreateSymint(in[1], in[2])
    \/ \E args \in ArgsInputs : DoCreateShapesForArgs(args)
    \/ \E e \in ConvertInputs : DoInt(e)
    \/ \E e \in ConvertInputs : DoGuardInt(e)
    \/ \E e \in ConvertInputs : DoBool(e)

SpecSymInt == Init /\ [][SymIntNext]_vars
\* The expression a OP b that a lambda of reflectable_magic_methods builds
\* from its first argument a and its second argument b, for OP one of sub,
\* mod and floordiv
BinE(method, a, b) == [op |-> method, l |-> a, r |-> b]

ReflectableMethods == {"sub", "mod", "floordiv"}

\* magic_impl of the method, without a mode: func(self.expr, other)
MagicImpl(method, expr, other) == BinE(method, expr, other)

\* __r<method>__ is the same magic_impl as __<method>__
ReflectedImpl(method, expr, other) == MagicImpl(method, expr, other)

\* The numbers written on the other side of the operator
OtherInputs == {2, 3}

\* a OP b with the symbolic integer a of the symbol on the left: a.__OP__(b)
DoMagic(method, name, b) ==
    /\ SYM_FUNCTION_MODE = None
    /\ var_to_val[name] # Unbound
    /\ lastEnv' = [op |-> "__" \o method \o "__", e |-> TermE(Sym(name)), args |-> <<b>>,
                   out |-> MagicImpl(method, Sym(name), Const(b)), outs |-> <<>>,
                   exc |-> "", path |-> ""]
    /\ UNCHANGED <<guards, var_to_val, replacements, divisible, simplifyCache, staticCache,
                   divisibleCache, hintCache, creates, evals, modeVars, kernelVars>>

\* b OP a with the symbolic integer a of the symbol on the right: a.__rOP__(b)
DoReflected(method, name, b) ==
    /\ SYM_FUNCTION_MODE = None
    /\ var_to_val[name] # Unbound
    /\ lastEnv' = [op |-> "__r" \o method \o "__", e |-> TermE(Sym(name)), args |-> <<b>>,
                   out |-> ReflectedImpl(method, Sym(name), Const(b)), outs |-> <<>>,
                   exc |-> "", path |-> ""]
    /\ UNCHANGED <<guards, var_to_val, replacements, divisible, simplifyCache, staticCache,
                   divisibleCache, hintCache, creates, evals, modeVars, kernelVars>>

\* Symbols are created and arithmetic is written on them
MagicNext ==
    \/ \E in \in SymintInputs : DoCreateSymint(in[1], in[2])
    \/ \E args \in ArgsInputs : DoCreateShapesForArgs(args)
    \/ \E method \in ReflectableMethods, name \in Names, b \in OtherInputs :
           DoMagic(method, name, b)
    \/ \E method \in ReflectableMethods, name \in Names, b \in OtherInputs :
           DoReflected(method, name, b)

SpecMagic == Init /\ [][MagicNext]_vars


\* FloorDiv(base, divisor) is built from two integers
DoFloorDiv(base, divisor) ==
    /\ lastEnv' = [op |-> "FloorDiv", e |-> NoneE, args |-> <<base, divisor>>,
                   out |-> TermE(FloorDivInts(base, divisor).out), outs |-> <<>>,
                   exc |-> FloorDivInts(base, divisor).exc, path |-> ""]
    /\ UNCHANGED <<guards, var_to_val, replacements, divisible, simplifyCache, staticCache,
                   divisibleCache, hintCache, creates, evals, modeVars, kernelVars>>

FloorDivNext == \E base, divisor \in -MaxInt..MaxInt : DoFloorDiv(base, divisor)

\* FloorDiv over the integers of the bound
SpecFloorDiv == Init /\ [][FloorDivNext]_vars

----------------------------------------------------------------------------
(* Properties of the dispatch-mode slot, checked under SpecModes *)

\* stack is n >= 2 entered modes followed by running handlers only
NestedThenCalls(n) ==
    /\ n >= 2
    /\ n <= Len(stack)
    /\ \A i \in 1..n : stack[i].k = "with"
    /\ \A i \in (n + 1)..Len(stack) : stack[i].k = "call"

\* C1: with modes entered in nested order (outer first, then inner) and still
\* active, an intercepted operation runs the inner mode's handler and not the
\* outer's; an operation performed by that handler runs the outer mode's handler
\* and not the inner's again.
C1_InnerThenOuter ==
    lifo => \A n \in 2..Len(stack) :
        NestedThenCalls(n) =>
            /\ Len(stack) >= n + 1 =>
                   stack[n + 1].m = stack[n].m /\ stack[n + 1].m # stack[n - 1].m
            /\ Len(stack) >= n + 2 =>
                   stack[n + 2].m = stack[n - 1].m /\ stack[n + 2].m # stack[n].m

C1_Witness ==
    /\ lifo
    /\ NestedThenCalls(2)
    /\ Len(stack) = 4
    /\ stack[3].m = stack[2].m
    /\ stack[4].m = stack[1].m

\* C2: __enter__ on a mode that has been entered before (exited since or not)
\* raises, and leaves the active-mode slot and every inner link as they were.
C2_ReenterFails ==
    [][\A m \in Modes :
          (lastMode'.op = "enter" /\ lastMode'.m = m /\ inner[m] # Unset) =>
              /\ lastMode'.raised
              /\ SYM_FUNCTION_MODE' = SYM_FUNCTION_MODE
              /\ inner' = inner]_modeVars

C2_Witness ==
    /\ lastMode.op = "enter"
    /\ lastMode.raised
    /\ inner[lastMode.m] = None
    /\ LastWith(stack, lastMode.m) = 0
    /\ SYM_FUNCTION_MODE # None

\* C3: in a properly nested run, a successful enter records the previously
\* active mode as the mode's inner link and makes the mode active, an exit
\* makes active again the mode that was active before the matching enter, and
\* once everything entered has exited the slot is None as at the start.
C3_NestedEnterExit ==
    /\ [](lifo /\ stack = <<>> => SYM_FUNCTION_MODE = None)
    /\ [][\A m \in Modes :
            /\ (lastMode'.op = "enter" /\ lastMode'.m = m /\ ~lastMode'.raised) =>
                   inner'[m] = SYM_FUNCTION_MODE /\ SYM_FUNCTION_MODE' = m
            /\ (lastMode'.op = "exit" /\ lastMode'.m = m /\ ~lastMode'.raised /\ lifo') =>
                   SYM_FUNCTION_MODE' = stack[Len(stack)].prev]_modeVars

C3_Witness ==
    /\ lifo
    /\ stack = <<>>
    /\ lastMode.op = "exit"
    /\ ~lastMode.raised
    /\ \A m \in Modes : inner[m] # Unset
    /\ \E m \in Modes : inner[m] # None

----------------------------------------------------------------------------
(* Properties of the shape environment, checked under Spec *)

\* C4: create_shapes_for_args gives the same per-dimension symbols to every
\* occurrence of one tensor object in the argument structure.
C4_SameTensorSameSymbols ==
    lastEnv.op = "create_shapes_for_args" =>
        \A i, j \in 1..Len(lastEnv.args) :
            (lastEnv.args[i] # NonTensor /\ lastEnv.args[i] = lastEnv.args[j]) =>
                lastEnv.outs[i] = lastEnv.outs[j]

\* The sizes a replay with args binds: create_shapes_for_args from no bindings
ReplaySizes(args) ==
    CreateShapesForArgs([Env EXCEPT !.var_to_val = [n \in Names |-> Unbound]], args).E.var_to_val

\* guard.xreplace(env) for the sizes of a replay
UnderSizes(e, sizes) ==
    SubstExpr(e, [n \in Names |-> IF sizes[n] = Unbound THEN Sym(n) ELSE Const(sizes[n])])

\* C5: with guards logged, evaluate_guards_for_args returns true for arguments
\* of exactly the traced sizes, and false for arguments whose sizes break an
\* equality guard that was logged as true.
C5_ReplayGuards ==
    [][\A args \in ReplayInputs :
          (lastEnv'.op = "evaluate_guards_for_args" /\ lastEnv'.args = args
              /\ guards # <<>>) =>
              /\ ReplaySizes(args) = var_to_val => lastEnv'.out = TrueE
              /\ (\E i \in 1..Len(guards) :
                      /\ guards[i][1].op = "eq"
                      /\ guards[i][2] = TrueE
                      /\ UnderSizes(guards[i][1], ReplaySizes(args)) = FalseE) =>
                  lastEnv'.out = FalseE]_envVars

\* The value of the expression e under the bindings of var_to_val
ValueUnderBindings(e) == SizeHintBody(Env, e).out

\* C6: a call of evaluate_expr that takes neither the no-free-symbols return,
\* nor the static return, nor the equality branch appends exactly one entry
\* (simplified expression, value of it under var_to_val) to the guard log and
\* returns that value.
C6_GuardOfGenericPath ==
    [][\A e \in ExprInputs :
          (lastEnv'.op = "evaluate_expr" /\ lastEnv'.e = e /\ lastEnv'.path = "guard"
              /\ lastEnv'.exc = "") =>
              LET expr == Simplify(Env, e).out
              IN  /\ guards' = Append(guards, <<expr, ValueUnderBindings(expr)>>)
                  /\ lastEnv'.out = ValueUnderBindings(expr)]_envVars

C6_Witness ==
    /\ lastEnv.op = "evaluate_expr"
    /\ lastEnv.path = "guard"
    /\ lastEnv.exc = ""
    /\ Len(guards) = 2
    /\ guards[1][2] = guards[2][2]
    /\ ValueUnderBindings(guards[2][1]) # guards[2][2]

\* C7: a call of evaluate_expr that returns the expression because it has no
\* free symbols, or returns the constant the static evaluation found, returns
\* a value without free symbols and leaves the guard log as it was.
C7_NoGuardOnConcreteOrStatic ==
    [][(lastEnv'.op = "evaluate_expr" /\ lastEnv'.path \in {"concrete", "static"}) =>
          /\ guards' = guards
          /\ lastEnv'.exc = ""
          /\ FreeSyms(lastEnv'.out) = {}
          /\ lastEnv'.path = "concrete" => lastEnv'.out = lastEnv'.e]_envVars

C7_Witness ==
    /\ lastEnv.op = "evaluate_expr"
    /\ lastEnv.path = "static"
    /\ lastEnv.e = EqE(Sym(S00), Sym(S01))
    /\ lastEnv.out = TrueE
    /\ Len(guards) = 1

\* C8: a call of evaluate_expr that raises returns nothing and leaves the
\* guard log as it was before the call.
C8_ExceptionLeavesGuards ==
    [][(lastEnv'.op = "evaluate_expr" /\ lastEnv'.exc # "") =>
          /\ lastEnv'.out = NoneE
          /\ guards' = guards]_envVars

\* The environment and the expression evaluate_eq is entered with from
\* evaluate_expr(e)
EqEntry(e) ==
    LET simp == Simplify(Env, e)
    IN  [E |-> MaybeEvaluateStatic(simp.E, simp.out).E, expr |-> simp.out]

\* evaluate_eq(expr) entered in environment E0 logs the pair and, on false,
\* returns false and changes neither replacements nor divisible
EqCallLogs(E0, expr) ==
    LET concrete_val == SizeHint(E0, expr).out
    IN  /\ guards' = Append(E0.guards, <<expr, concrete_val>>)
        /\ concrete_val = FalseE =>
               /\ lastEnv'.out = FalseE
               /\ lastEnv'.exc = ""
               /\ replacements' = E0.replacements
               /\ divisible' = E0.divisible

LargestHint(E0, S, x) ==
    /\ x \in S
    /\ \A y \in S \ {x} :
           LET hx == SizeHint(E0, TermE(Sym(x))).out.l.c
               hy == SizeHint(E0, TermE(Sym(y))).out.l.c
           IN  hx > hy \/ (hx = hy /\ NameLess(x, y))

\* The end of the chain of replacements that starts at the term a
ChainEnd(repl, a) ==
    IF \E n \in Names : a = Sym(n) /\ repl[n] # NoTerm
    THEN Root(repl, a)
    ELSE a

\* evaluate_eq(expr) entered in environment E0, when expr is concretely true
\* and solving it for the symbol x of the largest hint gives one solution that
\* is no fraction: x is the one key added and it maps to find(solution)
EqCallReplaces(E0, expr) ==
    \A x \in FreeSyms(expr) :
        (/\ SizeHint(E0, expr).out = TrueE
         /\ Cardinality(FreeSyms(expr)) \in 1..3
         /\ LargestHint(E0, FreeSyms(expr), x)
         /\ Solve(expr, x).kind = "solved") =>
            /\ lastEnv'.out = TrueE
            /\ replacements'[x] = ChainEnd(E0.replacements, Solve(expr, x).sol)
            /\ {n \in Names : replacements'[n] # NoTerm}
                   = {n \in Names : E0.replacements[n] # NoTerm} \cup {x}

\* C10: a call of evaluate_eq, direct or from evaluate_expr, with an equality
\* that is concretely true, has one to three free symbols and has a single
\* solution that is no fraction for the free symbol of the largest size hint
\* (the first name among equal hints) adds that symbol, and no other, as a key
\* of replacements, mapped to find of the solution.
C10_LargestHintIsKey ==
    [][\A e \in ExprInputs :
          /\ (lastEnv'.op = "evaluate_eq" /\ lastEnv'.e = e) => EqCallReplaces(Env, e)
          /\ (lastEnv'.op = "evaluate_expr" /\ lastEnv'.e = e /\ lastEnv'.path = "eq") =>
                 EqCallReplaces(EqEntry(e).E, EqEntry(e).expr)]_envVars

C10_Witness ==
    /\ lastEnv.op = "evaluate_eq"
    /\ lastEnv.e = EqE(Sym(S00), Sym(S01))
    /\ lastEnv.out = TrueE
    /\ var_to_val[S00] = var_to_val[S01]
    /\ replacements[S01] = Sym(S10)
    /\ replacements[S00] = Sym(S10)

\* The expression e with every symbol replaced by the end of its chain of
\* replacements
Resolved(e) == SubstExpr(e, [n \in Names |-> Root(replacements, Sym(n))])

\* C11: after evaluate_eq has found the equality of two symbols true, where s0
\* is the one of the larger size hint and s1 the other, find(s1) is the
\* representative of s0, and simplify of an expression that contains s1 gives
\* the expression with s1 replaced by that representative.
C11_SmallerHintResolves ==
    \A s0, s1 \in Names :
        (/\ lastEnv.op = "evaluate_eq"
         /\ lastEnv.e \in {EqE(Sym(s0), Sym(s1)), EqE(Sym(s1), Sym(s0))}
         /\ lastEnv.out = TrueE
         /\ HintOf(Env, s0) > HintOf(Env, s1)) =>
            /\ replacements[s0] # NoTerm
            /\ Root(replacements, Sym(s1)) = Root(replacements, Sym(s0))
            /\ \A e \in ExprInputs :
                   s1 \in FreeSyms(e) =>
                       /\ FreeSyms(Simplify(Env, e).out) = FreeSyms(Resolved(e))
                       /\ FloorDivAtoms(Resolved(e)) = {} => Simplify(Env, e).out = Resolved(e)
                       /\ s0 \notin FreeSyms(Simplify(Env, e).out)

\* The environment with nothing in the caches of the version-cached methods
Uncached(E) ==
    [E EXCEPT !.simplifyCache = NoCache, !.staticCache = NoCache, !.divisibleCache = NoCache]

\* C12: after any sequence of evaluate_expr calls, the next call of simplify
\* or of maybe_evaluate_static, on any argument and so on every argument that
\* was cached earlier, returns what the method computes from the current
\* replacements and divisible with nothing cached.
C12_NoStaleCache ==
    \A e \in ExprInputs \cup {ent.k : ent \in simplifyCache.cache \cup staticCache.cache} :
        /\ Simplify(Env, e).out = SimplifyBody(Uncached(Env), e).out
        /\ MaybeEvaluateStatic(Env, e).out = MaybeEvaluateStaticBody(e)

\* The keys of replacements
Keys(repl) == {n \in Names : repl[n] # NoTerm}

\* C13: no operation of the environment makes replacements or divisible
\* have fewer entries than before.
C13_FactsOnlyGrow ==
    [][/\ Cardinality(Keys(replacements')) >= Cardinality(Keys(replacements))
       /\ Cardinality(divisible') >= Cardinality(divisible)]_envVars

\* C14: every operation of the environment leaves the guards already logged
\* where they are, in their order, and adds new guards only at the end.
C14_GuardsAppendOnly ==
    [][/\ Len(guards') >= Len(guards)
       /\ SubSeq(guards', 1, Len(guards)) = guards]_envVars

\* Two calls have each logged a different guard
C14_Witness ==
    /\ Len(guards) = 2
    /\ guards[1] # guards[2]
    /\ lastEnv.op \in {"evaluate_expr", "evaluate_eq"}
    /\ lastEnv.exc = ""

\* C15: a binding that var_to_val holds is never changed by a later
\* operation; later operations only bind symbols that had no binding.
C15_BindingsKept ==
    [][\A n \in Names : var_to_val[n] # Unbound => var_to_val'[n] = var_to_val[n]]_envVars

\* The symbols that appear in the logged guards
GuardSyms(g) == UNION {FreeSyms(g[i][1]) : i \in 1..Len(g)}

\* C16: on every step, a symbol that appears in a logged guard still appears
\* in the guard log, and a key of replacements is still a key of replacements.
C16_LifeMovesForward ==
    [][\A n \in Names :
           /\ n \in GuardSyms(guards) => n \in GuardSyms(guards')
           /\ n \in Keys(replacements) => n \in Keys(replacements')]_envVars

\* A symbol that was guarded and replaced has been through one more evaluation
C16_Witness ==
    /\ evals = 2
    /\ lastEnv.op = "evaluate_expr"
    /\ Len(guards) = 1
    /\ S00 \in GuardSyms(guards)
    /\ S00 \in Keys(replacements)

\* C17: int(x) of a symbolic integer always raises RuntimeError and leaves
\* guards, replacements and divisible as they were; guard_int changes the
\* environment as evaluate_expr of the expression does, what it returns is the
\* Python int of evaluate_expr's result, and it returns for every integer
\* expression whose symbols are bound.
C17_IntRaisesGuardIntEvaluates ==
    [][/\ lastEnv'.op = "__int__" =>
              /\ lastEnv'.exc = "RuntimeError"
              /\ guards' = guards
              /\ replacements' = replacements
              /\ divisible' = divisible
       /\ lastEnv'.op = "guard_int" =>
              /\ guards' = EvaluateExpr(Env, lastEnv'.e).E.guards
              /\ replacements' = EvaluateExpr(Env, lastEnv'.e).E.replacements
              /\ divisible' = EvaluateExpr(Env, lastEnv'.e).E.divisible
              /\ lastEnv'.exc = "" =>
                     /\ EvaluateExpr(Env, lastEnv'.e).out.op = "term"
                     /\ lastEnv'.out = IntE(EvaluateExpr(Env, lastEnv'.e).out.l.c)
              /\ (/\ lastEnv'.e.op = "term"
                  /\ \A n \in FreeSyms(lastEnv'.e) : var_to_val[n] # Unbound) =>
                     lastEnv'.exc = ""]_vars

\* guard_int of s_0[0] returned 8 and logged a guard, then int(s_0[0]) raised
C17_Witness ==
    /\ lastEnv.op = "__int__"
    /\ lastEnv.e = TermE(Sym(S00))
    /\ lastEnv.exc = "RuntimeError"
    /\ guards = << <<TermE(Sym(S00)), TermE(Const(8))>> >>

\* C18: create_symint(name, val) with val 0 or 1 returns the literal and
\* leaves var_to_val as it was; with any other val it returns the symbol of
\* that name, binds it to val and changes no other binding.
C18_CreateSymint ==
    [][lastEnv'.op = "create_symint" =>
           IF lastEnv'.args[1] \in {0, 1}
           THEN /\ lastEnv'.out = TermE(Const(lastEnv'.args[1]))
                /\ var_to_val' = var_to_val
           ELSE /\ lastEnv'.out = TermE(Sym(lastEnv'.e.l.s))
                /\ var_to_val'[lastEnv'.e.l.s] = lastEnv'.args[1]
                /\ \A n \in Names \ {lastEnv'.e.l.s} : var_to_val'[n] = var_to_val[n]]_vars

\* create_symint('s_0[0]', 8) bound the symbol, create_symint('s_0[0]', 1)
\* returned 1 and the binding is still 8
C18_Witness ==
    /\ lastEnv.op = "create_symint"
    /\ lastEnv.args = <<1>>
    /\ lastEnv.out = TermE(Const(1))
    /\ var_to_val[S00] = 8
    /\ creates = 2

\* C19: every boolean coercion of a symbolic integer whose expression has a
\* free symbol, when it returns, has added a guard to the guard log.
C19_BoolAlwaysGuards ==
    [][(/\ lastEnv'.op = "__bool__"
        /\ lastEnv'.exc = ""
        /\ FreeSyms(lastEnv'.e) # {}) => Len(guards') = Len(guards) + 1]_vars

\* evaluate_expr decides the expression without the size hints: it has no
\* free symbol, or it has none left after simplify
Decided(E, e) ==
    \/ FreeSyms(e) = {}
    \/ MaybeEvaluateStaticBody(Simplify(E, e).out) # NoneE

\* C19, as the code has it: boolean coercion changes the environment as
\* evaluate_expr of the expression does; when it returns it has added exactly
\* one guard, except that it has added none when the expression has no free
\* symbol or has none left after simplify.
C19_BoolGuardsUnlessDecided ==
    [][lastEnv'.op = "__bool__" =>
           /\ guards' = EvaluateExpr(Env, lastEnv'.e).E.guards
           /\ replacements' = EvaluateExpr(Env, lastEnv'.e).E.replacements
           /\ divisible' = EvaluateExpr(Env, lastEnv'.e).E.divisible
           /\ lastEnv'.exc = "" =>
                  Len(guards') = Len(guards) + (IF Decided(Env, lastEnv'.e) THEN 0 ELSE 1)]_vars

\* The second bool(s_0[0] == s_0[1]): the replacement recorded by the first
\* decides it and no second guard is logged
C19_Witness ==
    /\ lastEnv.op = "__bool__"
    /\ lastEnv.e = EqE(Sym(S00), Sym(S01))
    /\ lastEnv.path = "static"
    /\ lastEnv.out = PyBoolE(TRUE)
    /\ Len(guards) = 1
    /\ evals = 2

\* q is the floor of a / b: the largest integer not above the quotient
IsFloor(q, a, b) ==
    IF b > 0 THEN q * b <= a /\ a < (q + 1) * b
    ELSE q * b >= a /\ a > (q + 1) * b

\* C20: FloorDiv(a, b) of integers a and b, b not 0, raises nothing and is the
\* integer that is the floor of a / b, rounded toward minus infinity; the
\* result is a number, no FloorDiv node.
C20_FloorDivOfIntegers ==
    (lastEnv.op = "FloorDiv" /\ lastEnv.args[2] # 0) =>
        /\ lastEnv.exc = ""
        /\ lastEnv.out.op = "term"
        /\ lastEnv.out.l.f = "lin"
        /\ IsConst(lastEnv.out.l)
        /\ IsFloor(lastEnv.out.l.c, lastEnv.args[1], lastEnv.args[2])

\* FloorDiv(-5, 2) is -3, where truncation gives -2
C20_Witness ==
    /\ lastEnv.op = "FloorDiv"
    /\ lastEnv.args = <<-5, 2>>
    /\ lastEnv.out = TermE(Const(-3))

\* C21: after any sequence of evaluate_expr calls, no free symbol of what
\* simplify returns, for any expression, is a key of replacements.
C21_SimplifyEliminatesKeys ==
    \A e \in ExprInputs : FreeSyms(Simplify(Env, e).out) \cap Keys(replacements) = {}

\* The terms met on the chain of replacements that starts at a
OnChain(repl, a) == {a} \cup {repl[k] : k \in Chain(repl, a, Cardinality(Names) + 1)}

\* C22: find(a) returns a term of the chain that starts at a that is no key
\* (a itself when a is no key); afterwards every key that was on the chain
\* maps to the returned root, every other entry and the set of keys are as
\* before, and find(a) again returns the same root.
C22_FindCompresses ==
    [][lastEnv'.op = "find" =>
           /\ lastEnv'.out.l \in OnChain(replacements, lastEnv'.e.l)
           /\ ~IsKey(replacements, lastEnv'.out.l)
           /\ \A k \in Names :
                  replacements'[k] =
                      IF k \in Chain(replacements, lastEnv'.e.l, Cardinality(Names) + 1)
                      THEN lastEnv'.out.l ELSE replacements[k]
           /\ Keys(replacements') = Keys(replacements)
           /\ Find([Env EXCEPT !.replacements = replacements'], lastEnv'.e.l).out
                  = lastEnv'.out.l]_vars

\* find(s_0[0]) walked s_0[0] -> s_0[1] -> s_1[0] and both keys now map to s_1[0]
C22_Witness ==
    /\ lastEnv.op = "find"
    /\ lastEnv.e = TermE(Sym(S00))
    /\ lastEnv.out = TermE(Sym(S10))
    /\ replacements[S00] = Sym(S10)
    /\ replacements[S01] = Sym(S10)

\* The symbols reached from the symbol n by following replacements, in at
\* most i steps: a key leads to the symbol of its replacement
RECURSIVE Reached(_, _, _)
Reached(repl, N, i) ==
    IF i = 0 THEN N
    ELSE Reached(repl, N \cup UNION {TermSyms(repl[k]) : k \in N}, i - 1)

ReachedFrom(repl, n) == Reached(repl, TermSyms(repl[n]), Cardinality(Names))

\* C23: after any sequence of evaluate_expr and evaluate_eq calls no symbol is
\* reached from itself by following replacements, so the walk of find ends
\* for every symbol: at a term that is no key.
C23_NoCycle ==
    \A n \in Names :
        /\ n \notin ReachedFrom(replacements, n)
        /\ ~IsKey(replacements, Root(replacements, Sym(n)))

\* A chain of two replacements has been recorded and it has no cycle
C23_Witness ==
    /\ replacements[S00] = Sym(S01)
    /\ replacements[S01] = Sym(S10)
    /\ ReachedFrom(replacements, S00) = {S01, S10}
    /\ lastEnv.op \in {"evaluate_expr", "evaluate_eq"}

\* C24: b OP a, for OP one of sub, mod and floordiv and the symbolic integer
\* a on the right, builds the expression of b OP a, the number first and
\* the symbol second.
C24_ReflectedKeepsOrder ==
    \A method \in ReflectableMethods :
        lastEnv.op = "__r" \o method \o "__" =>
            lastEnv.out = BinE(method, Const(lastEnv.args[1]), lastEnv.e.l)

\* C25: _handle_sym_dispatch puts the inner link of the dispatching mode, the
\* mode the slot held at the call, into the active-mode slot before the handler
\* runs, and when that handler returns or raises the slot holds the dispatching
\* mode again, whatever the handler left there.
C25_DispatchRestoresMode ==
    [][/\ lastMode'.op = "dispatch" =>
              /\ lastMode'.m = SYM_FUNCTION_MODE
              /\ SYM_FUNCTION_MODE' = inner[SYM_FUNCTION_MODE]
              /\ stack'[Len(stack')] = [k |-> "call", m |-> SYM_FUNCTION_MODE,
                                        prev |-> SYM_FUNCTION_MODE]
       /\ lastMode'.op = "handled" =>
              /\ LastCall(stack) # 0
              /\ lastMode'.m = stack[LastCall(stack)].m
              /\ SYM_FUNCTION_MODE' = stack[LastCall(stack)].prev
              /\ SYM_FUNCTION_MODE' = lastMode'.m]_modeVars

\* A handler of the second of two nested modes entered a third mode and raised:
\* the slot holds the second mode
C25_Witness ==
    /\ lastMode.op = "handled"
    /\ lastMode.raised
    /\ SYM_FUNCTION_MODE = lastMode.m
    /\ Len(stack) = 3
    /\ \A i \in 1..3 : stack[i].k = "with"
    /\ stack[2].m = lastMode.m
    /\ stack[3].prev = inner[lastMode.m]
    /\ inner[lastMode.m] # None

----------------------------------------------------------------------------
(* Properties of MultiKernelCall, checked under SpecKernel *)

\* C26: the first call of run benchmarks every kernel once, picks a kernel no
\* measured time is below and runs it once; every later call benchmarks
\* nothing and runs the picked kernel once; picked_kernel, once set, never
\* changes.
C26_BenchmarkOnce ==
    [][/\ lastRun'.op = "run"
       /\ calls' = calls + 1
       /\ calls = 0 =>
              /\ picked_kernel = NoKernel
              /\ lastRun'.benched = kernels
              /\ \E i \in DOMAIN kernels :
                     /\ picked_kernel' = kernels[i]
                     /\ \A j \in DOMAIN kernels : lastRun'.times[i] <= lastRun'.times[j]
              /\ lastRun'.ran = <<picked_kernel'>>
       /\ calls > 0 =>
              /\ picked_kernel # NoKernel
              /\ lastRun'.benched = <<>>
              /\ lastRun'.ran = <<picked_kernel>>
       /\ picked_kernel # NoKernel => picked_kernel' = picked_kernel
       /\ kernels' = kernels]_kernelVars

\* The third call runs the kernel the first call picked, the last of three
C26_Witness ==
    /\ calls = 3
    /\ kernels = <<1, 2, 3>>
    /\ picked_kernel = 3
    /\ lastRun.benched = <<>>
    /\ lastRun.ran = <<3>>

====
